---- MODULE Spec2Model ----
(***************************************************************************)
(* Model of src/libs/4d/src/data_visualizer.cpp: the RealsenseGrabber      *)
(* producer loop with its fan-out queues, the DataVisualizer consumer      *)
(* (init, run, handleEvents, process) and the per-pixel fusion of process. *)
(***************************************************************************)
EXTENDS Integers, Sequences, FiniteSets, TLC

\* ---------------------------------------------------------------- bounds
MaxSamples == 3        \* successful AcquireFrame calls explored
MaxQueues == 2         \* FrameQueue objects that may be registered
MaxDepth == 6100       \* depth values 0..MaxDepth are enumerated exhaustively
UninitFrames == 3      \* a value numFrames may hold before init() assigns it
MaxDim == 2            \* image sides explored: k x (k+1) and (k+1) x k for k in 1..MaxDim
MaxCloud == 2          \* longest point cloud explored

\* ------------------------------------------------------ program constants
escape == 27
space == 32
PXC_STATUS_NO_ERROR == 0
maxColor == 40
maxDistMm == 6000
minDistMm == 300
padWidth == 8

\* ------------------------------------------------------------- input sets
QueueIds == 1..MaxQueues
VisQ == 1                               \* the queue the DataVisualizer was constructed with
NoFrame == 0
otherKey == 97
noKey == -1
Keys == {space, escape, otherKey, noKey}
StatusValues == {-1, PXC_STATUS_NO_ERROR, 1}
AccessStatusValues == {-1, PXC_STATUS_NO_ERROR}
NullSample == [null |-> TRUE, color |-> FALSE, depth |-> FALSE]
Samples == {NullSample} \cup [null : {FALSE}, color : BOOLEAN, depth : BOOLEAN]
GreenValues == {0, 100, 128, 214, 215, 216, 217, 218, 254, 255}
ColorValues == {<<10, g, 200>> : g \in GreenValues} \cup {<<0, 0, 0>>, <<255, 255, 255>>}
DepthValues == (0..MaxDepth) \cup {65535}

VARIABLES
    queues,            \* RealsenseGrabberImpl::queues, in registration order
    qs,                \* contents of each FrameQueue (frame ids, head first)
    got,               \* per queue: the frames its consumer has retrieved, in order
    gpc,               \* position of the thread in RealsenseGrabber::run
    status,            \* run's local `status`
    sampleNo,          \* number of AcquireFrame calls that returned a sample
    grabNumFrames,     \* run's local `numFrames`
    frameLocked,       \* AcquireFrame succeeded and ReleaseFrame not yet called
    colorAccess,       \* color->AcquireAccess held
    depthAccess,       \* depth->AcquireAccess held
    qi,                \* position of the range-for over data->queues
    made,              \* frames constructed by make_shared<Frame>, in order
    puts,              \* log of queue->put calls: <<frame, queue>>
    skipped,           \* samples dropped by a `continue`
    cancel,            \* the shared CancellationToken
    sensorInitialized, \* SensorManager::isInitialized()
    paramsRead,        \* value of isInitialized() when init() read the stream parameters
    vpc,               \* position of the thread in DataVisualizer init/run
    key,               \* handleEvents' local `key`
    capturing,         \* AppState::isCapturingStarted()
    grabbing,          \* AppState::isGrabbingStarted()
    vframe,            \* frame fetched by loopBody and handed to process
    numFrames,         \* DataVisualizer::numFrames
    saveToDisk,        \* DataVisualizer::saveToDisk as read by the last process call
    saved,             \* log: value of saveToDisk at each process call
    files,             \* names passed to cv::imwrite, in order
    c,                 \* fusion: aligned color pixel <<b, g, r>>
    d,                 \* fusion: aligned depth value
    res,               \* fusion: colorWithDepth pixel
    ppc,               \* position in the per-pixel body of the fusion loop
    frame,             \* process: the Frame it is given (color, depth, cloud)
    heap,              \* process: pixel data of every cv::Mat buffer, by buffer name
    colorCamera,       \* DataVisualizer::colorCamera (w, h)
    depthCamera,       \* DataVisualizer::depthCamera (w, h)
    color,             \* process: local cv::Mat color
    depth,             \* process: local cv::Mat depth
    colorWithDepth,    \* process: local cv::Mat colorWithDepth
    depthPretty,       \* process: local cv::Mat depthPretty
    oob,               \* process: some at<>() was applied outside its matrix
    ipc                \* position of the thread in process

grabVars == <<queues, qs, gpc, status, sampleNo, grabNumFrames, frameLocked,
              colorAccess, depthAccess, qi, made, puts, skipped>>
visVars == <<cancel, sensorInitialized, paramsRead, vpc, key, capturing, grabbing,
             vframe, numFrames, saveToDisk, saved, files>>
imgVars == <<frame, heap, colorCamera, depthCamera, color, depth, colorWithDepth,
             depthPretty, oob, ipc>>
pixVars == <<c, d, res, ppc, imgVars>>
vars == <<grabVars, got, visVars, pixVars>>

\* ------------------------------------------------------------ helpers
Min(a, b) == IF a < b THEN a ELSE b

Range(s) == {s[i] : i \in 1..Len(s)}

IsPrefix(s, t) == Len(s) <= Len(t) /\ \A i \in 1..Len(s) : s[i] = t[i]

\* C++ conversion of a real quotient n/m (m > 0) to int: truncation toward zero
TruncDiv(n, m) == IF n >= 0 THEN n \div m ELSE -((-n) \div m)

\* ------------------------------------------------------------ FrameQueue
\* FrameQueue::put: appends at the tail, unbounded
QueuePut(q, f) == [qs EXCEPT ![q] = Append(@, f)]

\* ------------------------------------------------------- RealsenseGrabber
\* addQueue, called during setup, before run starts, with a queue of Q
RealsenseGrabber_addQueue(Q) ==
    /\ gpc = "setup"
    /\ \E q \in Q \ Range(queues) : queues' = Append(queues, q)
    /\ UNCHANGED <<qs, gpc, status, sampleNo, grabNumFrames, frameLocked,
                   colorAccess, depthAccess, qi, made, puts, skipped>>
    /\ UNCHANGED <<got, visVars, pixVars>>

\* the grabbing thread enters run
RealsenseGrabber_run ==
    /\ gpc = "setup"
    /\ gpc' = "acquire"
    /\ grabNumFrames' = 0
    /\ UNCHANGED <<queues, qs, status, sampleNo, frameLocked,
                   colorAccess, depthAccess, qi, made, puts, skipped>>
    /\ UNCHANGED <<got, visVars, pixVars>>

\* variant: the loop condition written with > instead of >=
LoopContinues_Strict(st) == st > PXC_STATUS_NO_ERROR

\* the loop condition: status = AcquireFrame(true, 1000); loop while status >= NO_ERROR
LoopContinues(st) == st >= PXC_STATUS_NO_ERROR

AcquireFrame ==
    /\ gpc = "acquire"
    /\ \E st \in StatusValues :
        /\ LoopContinues(st) => sampleNo < MaxSamples
        /\ status' = st
        /\ IF LoopContinues(st)
             THEN /\ gpc' = "query"
                  /\ frameLocked' = TRUE
                  /\ sampleNo' = sampleNo + 1
             ELSE /\ gpc' = "done"
                  /\ UNCHANGED <<frameLocked, sampleNo>>
    /\ UNCHANGED <<queues, qs, grabNumFrames, colorAccess, depthAccess, qi,
                   made, puts, skipped>>
    /\ UNCHANGED <<got, visVars, pixVars>>

\* variant: an error path without its `continue`: control falls through to the rest of the body
ContinueTarget_FallThrough == "release_frame"

\* where a `continue` of the loop body leads
ContinueTarget == "acquire"

\* QuerySample and the null checks on sample, color and depth
SampleUsable(smp) == ~smp.null /\ smp.color /\ smp.depth

QuerySample ==
    /\ gpc = "query"
    /\ \E smp \in Samples :
        IF SampleUsable(smp)
          THEN /\ grabNumFrames' = grabNumFrames + 1
               /\ gpc' = "color_access"
               /\ UNCHANGED skipped
          ELSE /\ skipped' = skipped \cup {sampleNo}
               /\ gpc' = ContinueTarget
               /\ UNCHANGED grabNumFrames
    /\ UNCHANGED <<queues, qs, status, sampleNo, frameLocked, colorAccess,
                   depthAccess, qi, made, puts>>
    /\ UNCHANGED <<got, visVars, pixVars>>

\* AcquireAccess grants read access exactly when it returns no error status
AccessGranted(accessStatus) == accessStatus >= PXC_STATUS_NO_ERROR

\* variant: the check also treating PXC_STATUS_NO_ERROR as a failure
AccessFailed_Inclusive(accessStatus) == accessStatus <= PXC_STATUS_NO_ERROR

\* if (accessStatus < PXC_STATUS_NO_ERROR) ... continue;
AccessFailed(accessStatus) == accessStatus < PXC_STATUS_NO_ERROR

AcquireColorAccess ==
    /\ gpc = "color_access"
    /\ \E accessStatus \in AccessStatusValues :
        /\ colorAccess' = AccessGranted(accessStatus)
        /\ IF AccessFailed(accessStatus)
             THEN /\ skipped' = skipped \cup {sampleNo}
                  /\ gpc' = ContinueTarget
             ELSE /\ gpc' = "color_release"
                  /\ UNCHANGED skipped
    /\ UNCHANGED <<queues, qs, status, sampleNo, grabNumFrames, frameLocked,
                   depthAccess, qi, made, puts>>
    /\ UNCHANGED <<got, visVars, pixVars>>

ReleaseColorAccess ==
    /\ gpc = "color_release"
    /\ colorAccess' = FALSE
    /\ gpc' = "depth_access"
    /\ UNCHANGED <<queues, qs, status, sampleNo, grabNumFrames, frameLocked,
                   depthAccess, qi, made, puts, skipped>>
    /\ UNCHANGED <<got, visVars, pixVars>>

AcquireDepthAccess ==
    /\ gpc = "depth_access"
    /\ \E accessStatus \in AccessStatusValues :
        /\ depthAccess' = AccessGranted(accessStatus)
        /\ IF AccessFailed(accessStatus)
             THEN /\ skipped' = skipped \cup {sampleNo}
                  /\ gpc' = ContinueTarget
             ELSE /\ gpc' = "depth_release"
                  /\ UNCHANGED skipped
    /\ UNCHANGED <<queues, qs, status, sampleNo, grabNumFrames, frameLocked,
                   colorAccess, qi, made, puts>>
    /\ UNCHANGED <<got, visVars, pixVars>>

ReleaseDepthAccess ==
    /\ gpc = "depth_release"
    /\ depthAccess' = FALSE
    /\ gpc' = "release_frame"
    /\ UNCHANGED <<queues, qs, status, sampleNo, grabNumFrames, frameLocked,
                   colorAccess, qi, made, puts, skipped>>
    /\ UNCHANGED <<got, visVars, pixVars>>

ReleaseFrame ==
    /\ gpc = "release_frame"
    /\ frameLocked' = FALSE
    /\ gpc' = "make_frame"
    /\ UNCHANGED <<queues, qs, status, sampleNo, grabNumFrames, colorAccess,
                   depthAccess, qi, made, puts, skipped>>
    /\ UNCHANGED <<got, visVars, pixVars>>

\* variant: the range-for stopping one queue short
LastPutIndex_OffByOne == Len(queues) - 1

\* the end of the range-for over data->queues
LastPutIndex == Len(queues)

\* std::make_shared<Frame>(colorMat, depthMat); the frame is named by its sample
MakeFrame ==
    /\ gpc = "make_frame"
    /\ made' = Append(made, sampleNo)
    /\ qi' = 1
    /\ gpc' = IF LastPutIndex <= 0 THEN "acquire" ELSE "put"
    /\ UNCHANGED <<queues, qs, status, sampleNo, grabNumFrames, frameLocked,
                   colorAccess, depthAccess, puts, skipped>>
    /\ UNCHANGED <<got, visVars, pixVars>>

\* variant: the range-for walking data->queues from the back
PutTarget_Reversed(i) == queues[Len(queues) + 1 - i]

\* the queue the i-th iteration of `for (auto queue : data->queues)` puts into
PutTarget(i) == queues[i]

\* one iteration of the range-for: put the frame made last into the queue at position qi
Distribute ==
    /\ gpc = "put"
    /\ qi <= LastPutIndex
    /\ LET f == made[Len(made)]
           q == PutTarget(qi)
       IN /\ qs' = QueuePut(q, f)
          /\ puts' = Append(puts, <<f, q>>)
    /\ qi' = qi + 1
    /\ gpc' = IF qi >= LastPutIndex THEN "acquire" ELSE "put"
    /\ UNCHANGED <<queues, status, sampleNo, grabNumFrames, frameLocked,
                   colorAccess, depthAccess, made, skipped>>
    /\ UNCHANGED <<got, visVars, pixVars>>

GrabberNext ==
    \/ RealsenseGrabber_run
    \/ AcquireFrame
    \/ QuerySample
    \/ AcquireColorAccess
    \/ ReleaseColorAccess
    \/ AcquireDepthAccess
    \/ ReleaseDepthAccess
    \/ ReleaseFrame
    \/ MakeFrame
    \/ Distribute

\* ------------------------------------------------------------- environment
\* SensorManager finishes initialisation (on the sensor's thread)
SensorInitialize ==
    /\ ~sensorInitialized
    /\ sensorInitialized' = TRUE
    /\ UNCHANGED <<cancel, paramsRead, vpc, key, capturing, grabbing, vframe,
                   numFrames, saveToDisk, saved, files>>
    /\ UNCHANGED <<grabVars, got, pixVars>>

\* CancellationToken::trigger called by a holder other than handleEvents
TriggerCancel ==
    /\ ~cancel
    /\ cancel' = TRUE
    /\ UNCHANGED <<sensorInitialized, paramsRead, vpc, key, capturing, grabbing,
                   vframe, numFrames, saveToDisk, saved, files>>
    /\ UNCHANGED <<grabVars, got, pixVars>>

\* the consumer of one of the queues in Q retrieves the head frame of its queue
ConsumerGet(Q) ==
    /\ \E q \in Q :
        /\ qs[q] # <<>>
        /\ got' = [got EXCEPT ![q] = Append(@, Head(qs[q]))]
        /\ qs' = [qs EXCEPT ![q] = Tail(@)]
    /\ UNCHANGED <<queues, gpc, status, sampleNo, grabNumFrames, frameLocked,
                   colorAccess, depthAccess, qi, made, puts, skipped>>
    /\ UNCHANGED <<visVars, pixVars>>

\* ------------------------------------------------------------------ AppState
startCapturing == capturing' = TRUE /\ UNCHANGED grabbing
startGrabbing == grabbing' = TRUE /\ UNCHANGED capturing
stopCapturing == capturing' = FALSE /\ grabbing' = FALSE

\* ------------------------------------------------------------ DataVisualizer
\* init: while (!cancel && !sensorManager.isInitialized()) sleep_for(30ms)
InitWait ==
    /\ vpc = "init_wait"
    /\ ~(~cancel /\ ~sensorInitialized)
    /\ vpc' = "init_params"
    /\ UNCHANGED <<cancel, sensorInitialized, paramsRead, key, capturing, grabbing,
                   vframe, numFrames, saveToDisk, saved, files>>
    /\ UNCHANGED <<grabVars, got, pixVars>>

\* the value init assigns to numFrames
InitialNumFrames == 0

\* init: getColorParams, getDepthParams; numFrames = 0
InitParams ==
    /\ vpc = "init_params"
    /\ paramsRead' = sensorInitialized
    /\ numFrames' = InitialNumFrames
    /\ vpc' = "run"
    /\ UNCHANGED <<cancel, sensorInitialized, key, capturing, grabbing, vframe,
                   saveToDisk, saved, files>>
    /\ UNCHANGED <<grabVars, got, pixVars>>

\* variant: the run loop not consulting the token
RunContinues_Always == TRUE

\* run: the condition of while (!cancel)
RunContinues == ~cancel

DataVisualizer_run ==
    /\ vpc = "run"
    /\ vpc' = IF RunContinues THEN "events" ELSE "returned"
    /\ UNCHANGED <<cancel, sensorInitialized, paramsRead, key, capturing, grabbing,
                   vframe, numFrames, saveToDisk, saved, files>>
    /\ UNCHANGED <<grabVars, got, pixVars>>

\* handleEvents: const auto key = cv::waitKey(15)
WaitKey ==
    /\ vpc = "events"
    /\ \E k \in Keys : key' = k
    /\ vpc' = "dispatch"
    /\ UNCHANGED <<cancel, sensorInitialized, paramsRead, capturing, grabbing,
                   vframe, numFrames, saveToDisk, saved, files>>
    /\ UNCHANGED <<grabVars, got, pixVars>>

\* variant: the space branches tested in the other order
KeyEffect_GrabFirst(k) ==
    IF k = space
      THEN /\ IF ~grabbing THEN startGrabbing
              ELSE IF ~capturing THEN startCapturing
              ELSE stopCapturing
           /\ UNCHANGED cancel
    ELSE IF k = escape
      THEN /\ stopCapturing
           /\ cancel' = TRUE
    ELSE UNCHANGED <<capturing, grabbing, cancel>>

\* handleEvents: the branches on key; key goes out of scope on return
KeyEffect(k) ==
    IF k = space
      THEN /\ IF ~capturing THEN startCapturing
              ELSE IF ~grabbing THEN startGrabbing
              ELSE stopCapturing
           /\ UNCHANGED cancel
    ELSE IF k = escape
      THEN /\ stopCapturing
           /\ cancel' = TRUE
    ELSE UNCHANGED <<capturing, grabbing, cancel>>

\* variant: the iteration abandoned as soon as handleEvents has cancelled
AfterEvents_BreakOnCancel(cancelled) == IF cancelled THEN "run" ELSE "body"

\* run: handleEvents(cancel); loopBody(); with nothing in between
AfterEvents(cancelled) == "body"

handleEvents ==
    /\ vpc = "dispatch"
    /\ KeyEffect(key)
    /\ key' = noKey
    /\ vpc' = AfterEvents(cancel')
    /\ UNCHANGED <<sensorInitialized, paramsRead, vframe, numFrames,
                   saveToDisk, saved, files>>
    /\ UNCHANGED <<grabVars, got, pixVars>>

\* FrameConsumer::loopBody: fetch one frame from the consumer's own queue; the
\* fetch blocks until an item is available or cancellation is observed
loopBody ==
    /\ vpc = "body"
    /\ IF qs[VisQ] # <<>>
         THEN /\ vframe' = Head(qs[VisQ])
              /\ got' = [got EXCEPT ![VisQ] = Append(@, Head(qs[VisQ]))]
              /\ qs' = [qs EXCEPT ![VisQ] = Tail(@)]
              /\ vpc' = "process"
         ELSE /\ cancel
              /\ vpc' = "run"
              /\ UNCHANGED <<vframe, got, qs>>
    /\ UNCHANGED <<cancel, sensorInitialized, paramsRead, key, capturing, grabbing,
                   numFrames, saveToDisk, saved, files>>
    /\ UNCHANGED <<queues, gpc, status, sampleNo, grabNumFrames, frameLocked,
                   colorAccess, depthAccess, qi, made, puts, skipped>>
    /\ UNCHANGED pixVars

\* decimal digits of n >= 0, most significant first
RECURSIVE Digits(_)
Digits(n) == IF n < 10 THEN <<n>> ELSE Append(Digits(n \div 10), n % 10)

\* s << std::setw(w) << std::setfill('0') << n: pad on the left up to width w
RECURSIVE PadLeft(_, _)
PadLeft(ds, w) == IF Len(ds) >= w THEN ds ELSE PadLeft(<<0>> \o ds, w)

\* variant: the name built from the counter after its increment
FileName_AfterIncrement(n) ==
    [index |-> PadLeft(Digits(n + 1), padWidth), suffix |-> "_frame.bmp"]

\* the name process builds for the recorded image
FileName(n) == [index |-> PadLeft(Digits(n), padWidth), suffix |-> "_frame.bmp"]

\* variant: the increment placed inside the if (saveToDisk) block
NextNumFrames_OnlyWhenSaved(n, sv) == IF sv THEN n + 1 ELSE n

\* how process advances numFrames; sv is saveToDisk
NextNumFrames(n, sv) == n + 1

\* process(frame): display, optional recording, ++numFrames
DataVisualizer_process ==
    /\ vpc = "process"
    /\ \E sv \in BOOLEAN :
        /\ saveToDisk' = sv
        /\ saved' = Append(saved, sv)
        /\ files' = IF sv THEN Append(files, FileName(numFrames)) ELSE files
        /\ numFrames' = NextNumFrames(numFrames, sv)
    /\ vframe' = NoFrame
    /\ vpc' = "run"
    /\ UNCHANGED <<cancel, sensorInitialized, paramsRead, key, capturing, grabbing>>
    /\ UNCHANGED <<grabVars, got, pixVars>>

VisualizerNext ==
    \/ InitWait
    \/ InitParams
    \/ DataVisualizer_run
    \/ WaitKey
    \/ handleEvents
    \/ loopBody
    \/ DataVisualizer_process

\* ------------------------------------------------- process: fusion loop
\* variant: the range test with the boundaries left in range
OutOfRange_Exclusive(dd) == dd < minDistMm \/ dd > maxDistMm

\* if (d <= minDistMm || d >= maxDistMm) continue;
OutOfRange(dd) == dd <= minDistMm \/ dd >= maxDistMm

\* variant: the boost growing with the distance, maxColor - dropped
depthColor_Increasing(dd) == TruncDiv(dd * maxColor, maxDistMm)

\* variant: the boost computed in integer arithmetic, d * maxColor / maxDistMm truncated first
depthColor_IntegerDivision(dd) == maxColor - (dd * maxColor) \div maxDistMm

\* int(maxColor - d * maxColor / maxDistMm), the float expression taken exactly:
\* (maxColor*maxDistMm - d*maxColor) / maxDistMm is an integer or at least 1/150
\* away from one, far more than the float rounding error, so the truncation of
\* the exact quotient is the truncation of the float
depthColor(dd) == TruncDiv(maxColor * maxDistMm - dd * maxColor, maxDistMm)

\* variant: the sum converted to uchar without the clamp
BoostGreen_NoClamp(g, dd) == (g + depthColor(dd)) % 256

\* uchar(std::min(g + depthColor, 255))
BoostGreen(g, dd) == Min(g + depthColor(dd), 255) % 256

\* the body of the inner loop for one pixel: res = c, then the green boost
Fuse(cc, dd) == IF OutOfRange(dd) THEN cc ELSE [cc EXCEPT ![2] = BoostGreen(cc[2], dd)]

FusePixel ==
    /\ ppc = "pixel"
    /\ res' = Fuse(c, d)
    /\ ppc' = "fused"
    /\ UNCHANGED <<c, d, imgVars>>
    /\ UNCHANGED <<grabVars, got, visVars>>

\* ------------------------------------------------------ process: cv::Mat
\* a cv::Mat is a header (rows, cols, the buffer holding its pixels); the pixels
\* of every buffer are in heap, indexed by <<row, col>> from 0
NoBuf == "none"
BufferNames == {"frame.color", "frame.depth", "color", "depth", "projection",
                "colorWithDepth", "depthPretty"}
EmptyMat == [rows |-> 0, cols |-> 0, buf |-> NoBuf]
NoPixels == [p \in {} |-> 0]

\* cv::Mat::empty
IsEmpty(m) == m.rows = 0 \/ m.cols = 0

PixelsOf(rows, cols) == (0..(rows - 1)) \X (0..(cols - 1))

Pixels(m) == PixelsOf(m.rows, m.cols)

\* cv::Mat::zeros(rows, cols, type)
Zeros(rows, cols, zero) == [p \in PixelsOf(rows, cols) |-> zero]

\* cv::resize(src, dst, Size(w, h), 0, 0, INTER_NEAREST): destination pixel (y, x)
\* takes source pixel (min(floor(y * rows / h), rows - 1), min(floor(x * cols / w), cols - 1))
ResizeNearest(data, rows, cols, h, w) ==
    [p \in PixelsOf(h, w) |->
        data[<<Min((p[1] * rows) \div h, rows - 1), Min((p[2] * cols) \div w, cols - 1)>>]]

\* resizeImg: whether it has to resize
NeedsResize(img, w, h) == img.cols # w \/ img.rows # h

\* variant: resizeImg never resizing, dst = img in both branches
ResizeImgMat_NoResize(img, dstBuf, w, h) == img

\* resizeImg: the header dst ends with; dst = img shares img's buffer
ResizeImgMat(img, dstBuf, w, h) ==
    IF NeedsResize(img, w, h) THEN [rows |-> h, cols |-> w, buf |-> dstBuf] ELSE img

\* resizeImg: the heap after it; cv::resize fills a newly created buffer
ResizeImgHeap(hp, img, dstBuf, w, h) ==
    IF NeedsResize(img, w, h)
      THEN [hp EXCEPT ![dstBuf] = ResizeNearest(hp[img.buf], img.rows, img.cols, h, w)]
      ELSE hp

\* ------------------------------------------- process: alignment and depth
\* const int w = std::min(colorCamera.w, depthCamera.w), h = std::min(colorCamera.h, depthCamera.h)
AlignW == Min(colorCamera.w, depthCamera.w)
AlignH == Min(colorCamera.h, depthCamera.h)

\* lines 92-94: w, h, colorWithDepth = zeros(h, w), resizeImg(frame->color, color, w, h)
ProcessAlign ==
    /\ ipc = "align"
    /\ colorWithDepth' = [rows |-> AlignH, cols |-> AlignW, buf |-> "colorWithDepth"]
    /\ color' = ResizeImgMat(frame.color, "color", AlignW, AlignH)
    /\ heap' = ResizeImgHeap(
                 [heap EXCEPT !["colorWithDepth"] = Zeros(AlignH, AlignW, <<0, 0, 0>>)],
                 frame.color, "color", AlignW, AlignH)
    /\ ipc' = "depth"
    /\ UNCHANGED <<frame, colorCamera, depthCamera, depth, depthPretty, oob>>
    /\ UNCHANGED <<c, d, res, ppc>>
    /\ UNCHANGED <<grabVars, got, visVars>>

\* project3dPointTo2d(p, depthCamera, iImg, jImg, d): the pixel and the quantized
\* distance of a point inside the depth camera's field of view, or failure
Project(p, cam) ==
    CASE p = "behind" -> [ok |-> FALSE, i |-> 0, j |-> 0, d |-> 0]
      [] p = "near"   -> [ok |-> TRUE, i |-> 0, j |-> 0, d |-> 1000]
      [] p = "mid"    -> [ok |-> TRUE, i |-> 0, j |-> 0, d |-> 2000]
      [] p = "corner" -> [ok |-> TRUE, i |-> cam.h - 1, j |-> cam.w - 1, d |-> 3000]

\* variant: the write made whether or not the projection succeeded
WritesPixel_Always(r) == TRUE

\* if (project3dPointTo2d(...)) projection.at<uint16_t>(iImg, jImg) = d
WritesPixel(r) == r.ok

\* for (const auto &p : frame->cloud) ...: the projection grid after the points of cloud
RECURSIVE ProjectCloud(_, _, _)
ProjectCloud(grid, cloud, cam) ==
    IF cloud = <<>> THEN grid
    ELSE LET r == Project(Head(cloud), cam)
         IN ProjectCloud(IF WritesPixel(r) THEN [grid EXCEPT ![<<r.i, r.j>>] = r.d] ELSE grid,
                         Tail(cloud), cam)

\* lines 96-108: the aligned depth, from frame->depth or synthesized from the cloud
ProcessDepth ==
    /\ ipc = "depth"
    /\ IF ~IsEmpty(frame.depth)
         THEN /\ depth' = ResizeImgMat(frame.depth, "depth", AlignW, AlignH)
              /\ heap' = ResizeImgHeap(heap, frame.depth, "depth", AlignW, AlignH)
         ELSE LET projection == [rows |-> depthCamera.h, cols |-> depthCamera.w,
                                 buf |-> "projection"]
                  hp == [heap EXCEPT !["projection"] =
                            ProjectCloud(Zeros(depthCamera.h, depthCamera.w, 0),
                                         frame.cloud, depthCamera)]
              IN /\ depth' = ResizeImgMat(projection, "depth", AlignW, AlignH)
                 /\ heap' = ResizeImgHeap(hp, projection, "depth", AlignW, AlignH)
    /\ ipc' = "fuse"
    /\ UNCHANGED <<frame, colorCamera, depthCamera, color, colorWithDepth, depthPretty, oob>>
    /\ UNCHANGED <<c, d, res, ppc>>
    /\ UNCHANGED <<grabVars, got, visVars>>

\* ------------------------------------------------ process: fusion, recording
\* variant: res bound to the aligned color pixel instead of the composite's
FuseTarget_Color == color

\* auto &res = colorWithDepth.at<cv::Vec3b>(i, j): the matrix the loop writes
FuseTarget == colorWithDepth

\* lines 110-128: for every pixel of depth, res = c and the green boost
ProcessFuse ==
    /\ ipc = "fuse"
    /\ LET target == FuseTarget
           inside == Pixels(depth) \cap Pixels(color) \cap Pixels(target)
       IN /\ heap' = [heap EXCEPT ![target.buf] =
                        [p \in DOMAIN @ |->
                            IF p \in inside
                              THEN Fuse(heap[color.buf][p], heap[depth.buf][p])
                              ELSE @[p]]]
          /\ oob' = (oob \/ Pixels(depth) # inside)
    /\ ipc' = "record"
    /\ UNCHANGED <<frame, colorCamera, depthCamera, color, depth, colorWithDepth, depthPretty>>
    /\ UNCHANGED <<c, d, res, ppc>>
    /\ UNCHANGED <<grabVars, got, visVars>>

dMin == 800
dMax == 2500
dRange == dMax - dMin

Max(a, b) == IF a > b THEN a ELSE b

\* variant: the clamp keeping only the upper bound
Clamp_UpperOnly(dd) == Min(dd, dMax)

\* d = std::max(d, dMin), d = std::min(d, dMax)
Clamp(dd) == Min(Max(dd, dMin), dMax)

\* the weights of close and far, as numerators over dRange
NearNum(dd) == dMax - Clamp(dd)
FarNum(dd) == Clamp(dd) - dMin

\* saturate_cast<uchar> of the non-negative quotient n/m: nearest, halves to even
\* (the float product 255 * (num / 1700) rounds as the exact quotient does for
\* every num in 0..1700)
RoundHalfEven(n, m) ==
    LET fl == n \div m
        r2 == 2 * (n % m)
    IN IF r2 > m THEN fl + 1
       ELSE IF r2 < m THEN fl
       ELSE IF fl % 2 = 0 THEN fl ELSE fl + 1

\* lines 143-148: the false color of one depth value; close = (0, 0, 255), far = (255, 0, 0)
Pretty(dd) ==
    IF dd = 0 THEN <<0, 0, 0>>
    ELSE <<Min(RoundHalfEven(255 * FarNum(dd), dRange), 255), 0,
           Min(RoundHalfEven(255 * NearNum(dd), dRange), 255)>>

\* variant: depthPretty allocated at the depth stream's native size
PrettySize_Native == [rows |-> depthCamera.h, cols |-> depthCamera.w]

\* cv::Mat::zeros(depth.rows, depth.cols, CV_8UC3)
PrettySize == [rows |-> depth.rows, cols |-> depth.cols]

\* lines 130-154: imshow; if saveToDisk the false-color image is built and written;
\* ++numFrames
ProcessRecord ==
    /\ ipc = "record"
    /\ \E sv \in BOOLEAN :
        /\ saveToDisk' = sv
        /\ saved' = Append(saved, sv)
        /\ files' = IF sv THEN Append(files, FileName(numFrames)) ELSE files
        /\ numFrames' = NextNumFrames(numFrames, sv)
        /\ IF sv
             THEN LET sz == PrettySize
                      inside == Pixels(depth) \cap PixelsOf(sz.rows, sz.cols)
                  IN /\ depthPretty' = [rows |-> sz.rows, cols |-> sz.cols,
                                        buf |-> "depthPretty"]
                     /\ heap' = [heap EXCEPT !["depthPretty"] =
                                   [p \in PixelsOf(sz.rows, sz.cols) |->
                                       IF p \in inside THEN Pretty(heap[depth.buf][p])
                                       ELSE <<0, 0, 0>>]]
                     /\ oob' = (oob \/ Pixels(depth) # inside)
             ELSE UNCHANGED <<depthPretty, heap, oob>>
    /\ ipc' = "done"
    /\ UNCHANGED <<frame, colorCamera, depthCamera, color, depth, colorWithDepth>>
    /\ UNCHANGED <<c, d, res, ppc>>
    /\ UNCHANGED <<cancel, sensorInitialized, paramsRead, vpc, key, capturing, grabbing,
                   vframe>>
    /\ UNCHANGED <<grabVars, got>>

ProcessNext ==
    \/ ProcessAlign
    \/ ProcessDepth
    \/ ProcessFuse
    \/ ProcessRecord

\* ------------------------------------------------------- process: inputs
\* image shapes <<rows, cols>>
Dims == {<<k, k + 1>> : k \in 1..MaxDim} \cup {<<k + 1, k>> : k \in 1..MaxDim}

Cameras == {[w |-> sz[2], h |-> sz[1]] : sz \in Dims}

\* a color image whose pixels all differ
ColorGrid(rows, cols) ==
    [p \in PixelsOf(rows, cols) |->
        <<10 + p[1], IF (p[1] + p[2]) % 2 = 0 THEN 100 ELSE 250, 200 + p[2]>>]

DepthPalette == <<1000, 0, 800, 2500, 300, 6000, 2499, 801, 65535, 1, 5999, 1650>>

\* a depth image walking the palette from position 6 * seed
DepthGrid(rows, cols, seed) ==
    [p \in PixelsOf(rows, cols) |->
        DepthPalette[((p[1] * cols + p[2] + 6 * seed) % Len(DepthPalette)) + 1]]

PointIds == {"behind", "near", "mid", "corner"}

Clouds == UNION {[1..n -> PointIds] : n \in 0..MaxCloud}

\* ---------------------------------------------------------- specification
InitPipeline ==
    /\ queues = <<>>
    /\ qs = [q \in QueueIds |-> <<>>]
    /\ got = [q \in QueueIds |-> <<>>]
    /\ gpc = "setup"
    /\ status = PXC_STATUS_NO_ERROR
    /\ sampleNo = 0
    /\ grabNumFrames = 0
    /\ frameLocked = FALSE
    /\ colorAccess = FALSE
    /\ depthAccess = FALSE
    /\ qi = 1
    /\ made = <<>>
    /\ puts = <<>>
    /\ skipped = {}
    /\ cancel = FALSE
    /\ sensorInitialized = FALSE
    /\ paramsRead = FALSE
    /\ vpc = "init_wait"
    /\ key = noKey
    /\ capturing = FALSE
    /\ grabbing = FALSE
    /\ vframe = NoFrame
    /\ saveToDisk = FALSE
    /\ saved = <<>>
    /\ files = <<>>

\* no process call under way
InitImageIdle ==
    /\ frame = [color |-> EmptyMat, depth |-> EmptyMat, cloud |-> <<>>]
    /\ heap = [b \in BufferNames |-> NoPixels]
    /\ colorCamera = [w |-> 0, h |-> 0]
    /\ depthCamera = [w |-> 0, h |-> 0]
    /\ color = EmptyMat
    /\ depth = EmptyMat
    /\ colorWithDepth = EmptyMat
    /\ depthPretty = EmptyMat
    /\ oob = FALSE
    /\ ipc = "idle"

Init ==
    /\ InitPipeline
    /\ numFrames \in {0, UninitFrames}
    /\ c = <<0, 0, 0>>
    /\ d = 0
    /\ res = <<0, 0, 0>>
    /\ ppc = "idle"
    /\ InitImageIdle

\* the whole pipeline: producer, visualizer, and the consumers of the other queues
Next ==
    \/ RealsenseGrabber_addQueue(QueueIds)
    \/ GrabberNext
    \/ VisualizerNext
    \/ ConsumerGet(QueueIds \ {VisQ})
    \/ SensorInitialize
    \/ TriggerCancel

Spec == Init /\ [][Next]_vars

\* the producer and the queues, every queue drained by its consumer
NextGrabber ==
    \/ RealsenseGrabber_addQueue(QueueIds)
    \/ GrabberNext
    \/ ConsumerGet(QueueIds)
    \/ TriggerCancel

SpecGrabber == Init /\ [][NextGrabber]_vars

\* the visualizer fed by the producer: only the visualizer's queue is registered,
\* or none (the other queues and their consumers touch nothing the visualizer
\* reads)
NextVisualizer ==
    \/ RealsenseGrabber_addQueue({VisQ})
    \/ GrabberNext
    \/ VisualizerNext
    \/ SensorInitialize
    \/ TriggerCancel

SpecVisualizer == Init /\ [][NextVisualizer]_vars

\* the visualizer's thread keeps running
FairSpecVisualizer == SpecVisualizer /\ WF_vars(VisualizerNext)

\* process applied to one pixel: every aligned color and depth value of the input sets
InitPixel ==
    /\ InitPipeline
    /\ numFrames = 0
    /\ c \in ColorValues
    /\ d \in DepthValues
    /\ res = <<0, 0, 0>>
    /\ ppc = "pixel"
    /\ InitImageIdle

NextPixel == FusePixel

SpecPixel == InitPixel /\ [][NextPixel]_vars

\* process applied to one frame: color of any shape, depth of any shape or empty
\* with a cloud, stream parameters of any shape
InitImage ==
    /\ InitPipeline
    /\ numFrames = 0
    /\ c = <<0, 0, 0>>
    /\ d = 0
    /\ res = <<0, 0, 0>>
    /\ ppc = "idle"
    /\ colorCamera \in Cameras
    /\ depthCamera \in Cameras
    /\ \E cs \in Dims, ds \in Dims \cup {<<0, 0>>}, seed \in {0, 1}, cl \in Clouds :
        /\ ds # <<0, 0>> => cl \in {<<>>, <<"near", "corner">>}
        /\ ds = <<0, 0>> => seed = 0
        /\ frame = [color |-> [rows |-> cs[1], cols |-> cs[2], buf |-> "frame.color"],
                    depth |-> IF ds = <<0, 0>> THEN EmptyMat
                              ELSE [rows |-> ds[1], cols |-> ds[2], buf |-> "frame.depth"],
                    cloud |-> cl]
        /\ heap = [b \in BufferNames |->
                     IF b = "frame.color" THEN ColorGrid(cs[1], cs[2])
                     ELSE IF b = "frame.depth" /\ ds # <<0, 0>>
                       THEN DepthGrid(ds[1], ds[2], seed)
                     ELSE NoPixels]
    /\ color = EmptyMat
    /\ depth = EmptyMat
    /\ colorWithDepth = EmptyMat
    /\ depthPretty = EmptyMat
    /\ oob = FALSE
    /\ ipc = "align"

SpecImage == InitImage /\ [][ProcessNext]_vars

\* ------------------------------------------------------------------ claims
\* what queue q has received so far: retrieved frames followed by those still queued
Delivered(q) == got[q] \o qs[q]

NoDuplicates(sq) == \A i, j \in 1..Len(sq) : i # j => sq[i] # sq[j]

PutCount(f, q) == Cardinality({i \in 1..Len(puts) : puts[i] = <<f, q>>})

\* C1: every frame the producer constructs is put exactly once into each
\* registered queue, and each queue's consumer retrieves the frames in the order
\* the producer constructed them, with none duplicated, lost or reordered.
C1_FanOutOncePerQueueInOrder ==
    \A q \in Range(queues) :
        /\ IsPrefix(got[q], made)
        /\ IsPrefix(Delivered(q), made)
        /\ NoDuplicates(Delivered(q))
        /\ \A f \in Range(made) : PutCount(f, q) <= 1
        /\ gpc # "put" => /\ Delivered(q) = made
                          /\ \A f \in Range(made) : PutCount(f, q) = 1

C1_Witness ==
    /\ Len(queues) = 2
    /\ Len(made) >= 2
    /\ \A q \in Range(queues) : Len(got[q]) >= 2

\* C2: frame K is put into all registered queues before frame K+1 is put into
\* any queue, and within one frame the puts follow the registration order.
C2_FrameMajorRegistrationOrder ==
    \A i \in 1..Len(puts) :
        puts[i] = <<made[((i - 1) \div Len(queues)) + 1],
                    queues[((i - 1) % Len(queues)) + 1]>>

C2_Witness ==
    /\ queues = <<2, 1>>
    /\ Len(puts) >= 4

\* round to the nearest integer of n/m for n >= 0, m > 0 (halves upward)
RoundDiv(n, m) == (2 * n + m) \div (2 * m)

InRange(dd) == minDistMm < dd /\ dd < maxDistMm

\* C3 as stated: for 300 < d < 6000 the fused green channel is
\* min(g + round(40 - d*40/6000), 255), round being rounding to nearest.
C3_RoundedBoost ==
    (ppc = "fused" /\ InRange(d)) =>
        res[2] = Min(c[2] + RoundDiv(maxColor * maxDistMm - d * maxColor, maxDistMm), 255)

\* C3 amended: for 300 < d < 6000 the fused green channel is
\* min(g + floor(40 - d*40/6000), 255): the boost is truncated, not rounded.
C3_TruncatedBoost ==
    (ppc = "fused" /\ InRange(d)) =>
        res[2] = Min(c[2] + (39 - ((d - 1) \div 150)), 255)

C3_Witness ==
    /\ ppc = "fused"
    /\ d = 500
    /\ c[2] = 100
    /\ res[2] = 136

\* C4: for d <= 300 or d >= 6000, including 0 and both boundaries, the fused
\* pixel equals the aligned color pixel in all three channels.
C4_OutOfRangePassThrough ==
    (ppc = "fused" /\ (d <= 300 \/ d >= 6000)) => res = c

C4_Witness ==
    /\ ppc = "fused"
    /\ d = 300
    /\ c = <<10, 100, 200>>
    /\ res = c

\* C5: once the cancellation token is triggered, DataVisualizer::run eventually
\* returns; no loop iteration starts while the token is set; and a frame
\* fetched by loopBody has been processed by the time run returns.
C5_CancelEndsRun ==
    /\ cancel ~> (vpc = "returned")
    /\ [][(vpc # "events" /\ vpc' = "events") => ~cancel]_vars
    /\ [][(cancel /\ vpc = "run") => vpc' \in {"run", "returned"}]_vars
    /\ [][vpc = "process" => vpc' \in {"process", "run"}]_vars
    /\ [](vpc = "returned" => (vframe = NoFrame /\ Len(saved) = Len(got[VisQ])))

C5_Witness ==
    /\ cancel
    /\ vpc = "returned"
    /\ Len(saved) >= 2
    /\ Len(files) >= 1

\* C6: RealsenseGrabber::run leaves its loop exactly when AcquireFrame returns a
\* status below PXC_STATUS_NO_ERROR: no skipped sample ends it, the cancellation
\* token does not end it, and after a terminal status nothing more is acquired.
C6_LoopEndsOnlyOnTerminalStatus ==
    /\ [][(gpc # "done" /\ gpc' = "done") =>
            (gpc = "acquire" /\ status' < PXC_STATUS_NO_ERROR)]_vars
    /\ [][(gpc = "acquire" /\ gpc' # "acquire") =>
            ((status' < PXC_STATUS_NO_ERROR) <=> (gpc' = "done"))]_vars
    /\ [][gpc = "done" =>
            (gpc' = "done" /\ sampleNo' = sampleNo /\ status' = status
             /\ made' = made /\ puts' = puts)]_vars
    /\ [][cancel' # cancel => gpc' = gpc]_vars

C6_Witness ==
    /\ gpc = "done"
    /\ status < PXC_STATUS_NO_ERROR
    /\ cancel
    /\ skipped # {}
    /\ Len(made) >= 2

\* C7: a sample that hits a transient error yields no Frame and is put into no
\* queue; a sample is delivered to all registered queues or to none; and the
\* loop goes on to the next AcquireFrame.
C7_SkippedSampleNeverDelivered ==
    /\ [](\A sm \in skipped :
            /\ sm \notin Range(made)
            /\ \A q \in QueueIds : PutCount(sm, q) = 0)
    /\ [](gpc = "acquire" =>
            \A f \in 1..sampleNo :
                \/ \A q \in Range(queues) : PutCount(f, q) = 1
                \/ \A q \in QueueIds : PutCount(f, q) = 0)
    /\ [][skipped' # skipped =>
            (gpc' = "acquire" /\ made' = made /\ puts' = puts /\ qs' = qs)]_vars

C7_Witness ==
    /\ skipped = {2}
    /\ made = <<1, 3>>
    /\ Len(queues) = 2
    /\ gpc = "acquire"

\* C8: space presses move the application state not capturing -> capturing ->
\* capturing+grabbing -> stopped without skipping a stage; escape stops
\* capturing and triggers the token; any other key or no key changes nothing.
C8_KeyCycle ==
    /\ [](grabbing => capturing)
    /\ [][(vpc = "dispatch" /\ vpc' = "body") =>
            /\ (key = space /\ ~capturing) => (capturing' /\ ~grabbing')
            /\ (key = space /\ capturing /\ ~grabbing) => (capturing' /\ grabbing')
            /\ (key = space /\ capturing /\ grabbing) => (~capturing' /\ ~grabbing')
            /\ key = space => cancel' = cancel
            /\ key = escape => (~capturing' /\ ~grabbing' /\ cancel')
            /\ key \notin {space, escape} =>
                 (capturing' = capturing /\ grabbing' = grabbing /\ cancel' = cancel)]_vars

C8_Witness ==
    /\ vpc = "dispatch"
    /\ key = space
    /\ capturing
    /\ grabbing
    /\ ~cancel

\* the number a padded digit string denotes
RECURSIVE ParseIndex(_)
ParseIndex(ds) ==
    IF ds = <<>> THEN 0 ELSE 10 * ParseIndex(SubSeq(ds, 1, Len(ds) - 1)) + ds[Len(ds)]

StrictlyIncreasingNames ==
    \A i, j \in 1..Len(files) :
        i < j => ParseIndex(files[i].index) < ParseIndex(files[j].index)

EightDigitNames ==
    \A i \in 1..Len(files) :
        /\ Len(files[i].index) = 8
        /\ \A k \in 1..8 : files[i].index[k] \in 0..9

\* C9 as stated: the recorded indices are strictly increasing, 8 digits wide,
\* and the first recorded file is 00000000_frame.bmp, whatever the pattern of
\* recording being on or off.
C9_FirstRecordedIsZero ==
    /\ StrictlyIncreasingNames
    /\ EightDigitNames
    /\ files # <<>> => ParseIndex(files[1].index) = 0

\* C9 amended: the recorded indices are strictly increasing and 8 digits wide,
\* and each is the number of process calls made before the call that recorded
\* it, so the first is 0 only when the first process call records.
C9_IndexIsCallNumber ==
    /\ StrictlyIncreasingNames
    /\ EightDigitNames
    /\ Len(files) = Cardinality({k \in 1..Len(saved) : saved[k]})
    /\ \A i \in 1..Len(files) :
         LET n == ParseIndex(files[i].index)
         IN /\ n + 1 <= Len(saved)
            /\ saved[n + 1]
            /\ files[i].suffix = "_frame.bmp"

C9_Witness ==
    /\ Len(files) >= 2
    /\ ParseIndex(files[1].index) = 1
    /\ saved = <<FALSE, TRUE, TRUE>>

\* C10: every process call adds exactly one to numFrames whether or not it
\* records, no other step of the run loop changes numFrames, and after k
\* process calls following init numFrames = k.
C10_CounterCountsProcessCalls ==
    /\ [](vpc \notin {"init_wait", "init_params"} => numFrames = Len(saved))
    /\ [][(vpc = "process" /\ vpc' # "process") => numFrames' = numFrames + 1]_vars
    /\ [][numFrames' # numFrames => vpc \in {"init_params", "process"}]_vars

C10_Witness ==
    /\ numFrames = 3
    /\ saved = <<TRUE, FALSE, TRUE>>
    /\ vpc = "run"

\* the points of the cloud, by position, whose projection succeeded onto pixel p
HitsOf(p) ==
    {k \in 1..Len(frame.cloud) :
        LET r == Project(frame.cloud[k], depthCamera)
        IN r.ok /\ <<r.i, r.j>> = p}

LastOf(S) == CHOOSE k \in S : \A n \in S : n <= k

\* C11: with frame.depth empty, the grid synthesized at the depth stream's
\* native resolution holds at each pixel the distance of the last point in
\* cloud order that projected onto it and 0 where none did (a failed projection
\* writes nothing); with frame.depth non-empty the cloud is not consulted and
\* the aligned depth comes from frame.depth alone.
C11_SynthesizedDepthLastWriteWins ==
    ipc \in {"fuse", "record", "done"} =>
        IF IsEmpty(frame.depth)
          THEN /\ DOMAIN heap["projection"] = PixelsOf(depthCamera.h, depthCamera.w)
               /\ \A p \in PixelsOf(depthCamera.h, depthCamera.w) :
                    heap["projection"][p] =
                        IF HitsOf(p) = {} THEN 0
                        ELSE Project(frame.cloud[LastOf(HitsOf(p))], depthCamera).d
          ELSE /\ heap["projection"] = NoPixels
               /\ \A p \in Pixels(depth) :
                    heap[depth.buf][p] =
                        heap["frame.depth"][<<(p[1] * frame.depth.rows) \div depth.rows,
                                              (p[2] * frame.depth.cols) \div depth.cols>>]

C11_Witness ==
    /\ ipc = "done"
    /\ IsEmpty(frame.depth)
    /\ frame.cloud = <<"near", "mid">>
    /\ heap["projection"][<<0, 0>>] = 2000
    /\ depthCamera = [w |-> 3, h |-> 2]
    /\ heap["projection"][<<1, 2>>] = 0

\* C12: for a fixed original green value the fused green channel is
\* non-increasing in d over 300 < d < 6000; checked from every d to d + 1 (which
\* chains to every pair, all depths of the interval being enumerated) and to
\* two farther depths.
C12_GreenNonIncreasingInDepth ==
    (ppc = "fused" /\ InRange(d)) =>
        \A d2 \in {d + 1, d + 150, maxDistMm - 1} :
            (d < d2 /\ InRange(d2)) => res[2] >= Fuse(c, d2)[2]

C12_Witness ==
    /\ ppc = "fused"
    /\ d = 450
    /\ c[2] = 100
    /\ res[2] = 137
    /\ Fuse(c, 451)[2] = 136

\* C13: every AcquireFrame that returned a non-terminal status is followed by
\* a ReleaseFrame before the next AcquireFrame is issued, on every path of the
\* loop body: whenever control is at AcquireFrame, no frame is held.
C13_FrameReleasedBeforeNextAcquire == (gpc = "acquire") => ~frameLocked

\* C14: read access to the color buffer and to the depth buffer are never held
\* together; each is held exactly between its successful AcquireAccess and its
\* ReleaseAccess (so every acquisition is released once, before the next
\* AcquireAccess), and none is held when the frame is put into the queues or
\* when the loop continues or exits.
C14_ScopedBufferAccess ==
    /\ ~(colorAccess /\ depthAccess)
    /\ colorAccess <=> (gpc = "color_release")
    /\ depthAccess <=> (gpc = "depth_release")
    /\ (gpc \in {"acquire", "color_access", "depth_access", "make_frame",
                 "put", "done"}) => (~colorAccess /\ ~depthAccess)

C14_Witness ==
    /\ gpc = "put"
    /\ qi = 1
    /\ Len(made) = 2
    /\ skipped # {}
    /\ ~colorAccess
    /\ ~depthAccess

\* C15: init reads the color and depth stream parameters only in a state where
\* sensorManager.isInitialized() is true, for every interleaving of sensor
\* initialization and cancellation: once init is past the read, the read was
\* made from an initialized sensor manager.
C15_ParamsReadOnlyWhenInitialized ==
    (vpc \notin {"init_wait", "init_params"}) => paramsRead

\* C16: in every iteration of run, handleEvents runs exactly once and strictly
\* before loopBody: handleEvents is entered only from the loop condition,
\* loopBody only from handleEvents, and the loop condition is re-checked only
\* after loopBody; no key is serviced while loopBody waits for or processes a
\* frame; and when handleEvents observes escape, loopBody still follows in
\* that iteration.
C16_EventsThenBodyEachIteration ==
    /\ [][(vpc' = "events" /\ vpc # "events") => vpc = "run"]_vars
    /\ [][(vpc = "events" /\ vpc' # "events") => vpc' = "dispatch"]_vars
    /\ [][(vpc = "dispatch" /\ vpc' # "dispatch") => vpc' = "body"]_vars
    /\ [][(vpc' = "body" /\ vpc # "body") => vpc = "dispatch"]_vars
    /\ [][(vpc' = "run" /\ vpc # "run") =>
            vpc \in {"init_params", "body", "process"}]_vars
    /\ [][(vpc = "body" \/ vpc = "process") =>
            (key' = key /\ capturing' = capturing /\ grabbing' = grabbing)]_vars
    /\ [][(vpc = "dispatch" /\ key = escape /\ vpc' # vpc) =>
            (cancel' /\ vpc' = "body")]_vars

C16_Witness ==
    /\ vpc = "dispatch"
    /\ key = escape
    /\ ~cancel
    /\ numFrames >= 1
    /\ qs[VisQ] # <<>>

\* C17: process leaves the Frame it receives unchanged: no step of process
\* changes the frame's color header, depth header or cloud, nor the pixels of
\* the frame's color and depth buffers, whether the aligned images share those
\* buffers or not and with recording on or off.
C17_FrameUnchangedByProcess ==
    [][/\ frame' = frame
       /\ heap'["frame.color"] = heap["frame.color"]
       /\ heap'["frame.depth"] = heap["frame.depth"]]_vars

C17_Witness ==
    /\ ipc = "done"
    /\ color.buf = "frame.color"
    /\ depth.buf = "frame.depth"
    /\ saved # <<>>
    /\ saved[Len(saved)]
    /\ \E p \in Pixels(colorWithDepth) :
          heap["colorWithDepth"][p][2] > heap["frame.color"][p][2]

\* C18: after the alignment steps of process the aligned color, the aligned
\* depth and the composite all have exactly w = min(colorCamera.w,
\* depthCamera.w) columns and h = min(colorCamera.h, depthCamera.h) rows, with
\* buffers of that size, so the fusion loop touches no pixel out of bounds; and
\* a frame with empty depth and empty cloud yields a composite equal to the
\* aligned color.
C18_AlignedShapes ==
    /\ (ipc \in {"fuse", "record", "done"}) =>
          /\ \A m \in {color, depth, colorWithDepth} :
                /\ m.rows = AlignH
                /\ m.cols = AlignW
                /\ DOMAIN heap[m.buf] = PixelsOf(AlignH, AlignW)
          /\ ~oob
    /\ (ipc \in {"record", "done"} /\ IsEmpty(frame.depth) /\ frame.cloud = <<>>) =>
          heap[colorWithDepth.buf] = heap[color.buf]

C18_Witness ==
    /\ ipc = "done"
    /\ IsEmpty(frame.depth)
    /\ frame.cloud = <<>>
    /\ colorCamera # depthCamera
    /\ <<frame.color.rows, frame.color.cols>> # <<AlignH, AlignW>>
    /\ color.buf = "color"
    /\ heap["colorWithDepth"] = heap["color"]
    /\ heap["colorWithDepth"] # NoPixels

\* C19: for every pixel and every depth value, the fusion step leaves the red
\* and blue channels equal to the aligned color pixel's, and the fused green g'
\* satisfies g <= g' <= 255: the boost is never negative and never wraps.
C19_GreenOnlyRaisedAndClamped ==
    (ppc = "fused") =>
        /\ res[1] = c[1]
        /\ res[3] = c[3]
        /\ c[2] <= res[2]
        /\ res[2] <= 255

C19_Witness ==
    /\ ppc = "fused"
    /\ d = 1000
    /\ c[2] = 254
    /\ res[2] = 255
    /\ c[2] + depthColor(d) > 255

\* C20: when recording is enabled the false-color image has the aligned depth
\* grid's dimensions; a pixel with depth 0 is black, every depth 0 < d <= 800
\* maps to exactly the near color (0, 0, 255), every depth d >= 2500 to exactly
\* the far color (255, 0, 0), and for 800 < d < 2500 the near and far weights
\* (2500 - d)/1700 and (d - 800)/1700 are both non-negative, sum to 1, and
\* scale the two colors.
C20_FalseColorImage ==
    (ipc = "done" /\ depthPretty.buf = "depthPretty") =>
        /\ depthPretty.rows = depth.rows
        /\ depthPretty.cols = depth.cols
        /\ DOMAIN heap["depthPretty"] = Pixels(depth)
        /\ \A p \in Pixels(depth) :
              LET dd == heap[depth.buf][p]
                  v == heap["depthPretty"][p]
              IN /\ (dd = 0) => v = <<0, 0, 0>>
                 /\ (0 < dd /\ dd <= 800) => v = <<0, 0, 255>>
                 /\ (dd >= 2500) => v = <<255, 0, 0>>
                 /\ (800 < dd /\ dd < 2500) =>
                       /\ NearNum(dd) = 2500 - dd
                       /\ FarNum(dd) = dd - 800
                       /\ NearNum(dd) >= 0
                       /\ FarNum(dd) >= 0
                       /\ NearNum(dd) + FarNum(dd) = 1700
                       /\ v = <<RoundHalfEven(255 * (dd - 800), 1700), 0,
                                RoundHalfEven(255 * (2500 - dd), 1700)>>

C20_Witness ==
    /\ ipc = "done"
    /\ depthPretty.buf = "depthPretty"
    /\ \E p1, p2, p3, p4 \in Pixels(depth) :
          /\ heap[depth.buf][p1] = 0
          /\ heap["depthPretty"][p1] = <<0, 0, 0>>
          /\ heap[depth.buf][p2] \in 1..800
          /\ heap["depthPretty"][p2] = <<0, 0, 255>>
          /\ heap[depth.buf][p3] >= 2500
          /\ heap["depthPretty"][p3] = <<255, 0, 0>>
          /\ heap[depth.buf][p4] = 1000
          /\ heap["depthPretty"][p4] = <<30, 0, 225>>

====
